---- MODULE Spec2Model ----
(***************************************************************************)
(* Baby Bear field arithmetic (risc0/zkp/rust/src/field/baby_bear.rs) and  *)
(* the guest side of the guest/host channel                                *)
(* (risc0/zkvm/sdk/rust/guest/src/io.rs).                                  *)
(*                                                                         *)
(* Machine integers keep their width.  The model checker's integers are    *)
(* 32-bit signed, so a u32 is a pair <<hi, lo>> of 16-bit halves and a u64 *)
(* a tuple of four 16-bit limbs, most significant first.                   *)
(***************************************************************************)
EXTENDS Integers, Sequences, FiniteSets, TLC

\* ------------------------------------------------------------------------
\* u32 / u64 machine arithmetic
\* ------------------------------------------------------------------------

\* 2^16: the radix of the half-word representation of u32 and u64.
Half == 2^16

\* The values of a u32.
Word == (0 .. Half - 1) \X (0 .. Half - 1)

\* The u32 holding the small natural n (0 <= n < 2^31).
U32(n) == <<n \div Half, n % Half>>

\* u32::MAX
U32_MAX == <<Half - 1, Half - 1>>

\* a < b and a <= b on u32.
U32Lt(a, b) == a[1] < b[1] \/ (a[1] = b[1] /\ a[2] < b[2])
U32Le(a, b) == a = b \/ U32Lt(a, b)

\* The carry out of the 32-bit addition a + b (1 when the sum is above u32::MAX).
U32AddCarry(a, b) == (a[1] + b[1] + ((a[2] + b[2]) \div Half)) \div Half

\* u32::wrapping_add.
wrapping_add(a, b) ==
    <<(a[1] + b[1] + ((a[2] + b[2]) \div Half)) % Half, (a[2] + b[2]) % Half>>

\* u32::wrapping_sub.
wrapping_sub(a, b) ==
    LET borrow == IF a[2] < b[2] THEN 1 ELSE 0
    IN  <<(a[1] - b[1] - borrow + Half) % Half, (a[2] - b[2] + Half) % Half>>

\* The 32-bit product <<hi, lo>> of two 16-bit halves, formed from 8-bit
\* pieces of u so that no intermediate value leaves 31 bits.
Mul16(u, v) ==
    LET t1 == (u \div 256) * v
        t0 == (u % 256) * v
        lo == (t1 % 256) * 256 + (t0 % Half)
    IN  <<(t1 \div 256) + (t0 \div Half) + (lo \div Half), lo % Half>>

\* (a as u64) * (b as u64): the exact 64-bit product of two u32, four limbs.
WideMul(a, b) ==
    LET p00 == Mul16(a[2], b[2])
        p01 == Mul16(a[2], b[1])
        p10 == Mul16(a[1], b[2])
        p11 == Mul16(a[1], b[1])
        s1  == p00[1] + p01[2] + p10[2]
        s2  == p01[1] + p10[1] + p11[2] + (s1 \div Half)
    IN  <<p11[1] + (s2 \div Half), s2 % Half, s1 % Half, p00[2]>>

\* The modulus of the field, 15 * 2^27 + 1.
P == 2013265921

\* P as a u32 (and, read as limbs, P_U64).
P_U32 == U32(P)

\* (r + s) mod P for r, s in [0, P), without leaving 31 bits.
AddModP(r, s) == IF r >= P - s THEN r - (P - s) ELSE r + s

\* (r * 2^4) mod P for r in [0, P).  With r = rh * 2^27 + rl (rh < 16),
\* r * 2^4 = rh * 2^31 + rl * 2^4, and 2^31 = P + (2^27 - 1) because
\* P = 15 * 2^27 + 1; both summands stay below 2^31.
Shl4ModP(r) ==
    LET lo == (r % (2^27)) * 16
    IN  AddModP(IF lo >= P THEN lo - P ELSE lo, (r \div (2^27)) * (2^27 - 1))

\* (r * 2^16) mod P for r in [0, P).
Shl16ModP(r) == Shl4ModP(Shl4ModP(Shl4ModP(Shl4ModP(r))))

\* limbs % P: the remainder of the unsigned integer held in the 16-bit limbs
\* (most significant first) on division by P, as a natural below P.  This is
\* `x % P` on u32 (two limbs) and `x % P_U64` on u64 (four limbs).
RECURSIVE RemP(_, _, _)
RemP(limbs, i, r) ==
    IF i > Len(limbs) THEN r
    ELSE RemP(limbs, i + 1, AddModP(Shl16ModP(r), limbs[i]))

\* `x % P` / `(x % P_U64) as u32`: the remainder as a u32.
ModP(limbs) == U32(RemP(limbs, 1, 0))

\* v / P on u32 (the quotient is at most 2).
RECURSIVE U32DivP(_)
U32DivP(v) == IF U32Lt(v, P_U32) THEN 0 ELSE 1 + U32DivP(wrapping_sub(v, P_U32))

\* The low 32 bits of a u64.
Low32(w) == <<w[3], w[4]>>

\* The natural held by a u32 below 2^31.
Nat31(a) == a[1] * Half + a[2]

\* ------------------------------------------------------------------------
\* Base field: Elem(u32)
\* ------------------------------------------------------------------------

\* add without the reduction of a sum that reaches P.
add_unreduced(lhs, rhs) == wrapping_add(lhs, rhs)

\* fn add(lhs: u32, rhs: u32) -> u32.  `lhs + rhs` is a 32-bit addition; in a
\* build without overflow checks it wraps (AddOverflows tells when).
add(lhs, rhs) ==
    LET s == wrapping_add(lhs, rhs)
    IN  IF U32Le(P_U32, s) THEN wrapping_sub(s, P_U32) ELSE s

\* Whether `lhs + rhs` inside add leaves the u32 range.
AddOverflows(lhs, rhs) == U32AddCarry(lhs, rhs) = 1

\* sub without the correction of a difference that wrapped.
sub_uncorrected(lhs, rhs) == wrapping_sub(lhs, rhs)

\* fn sub(lhs: u32, rhs: u32) -> u32
sub(lhs, rhs) ==
    LET d == wrapping_sub(lhs, rhs)
    IN  IF U32Lt(P_U32, d) THEN wrapping_add(d, P_U32) ELSE d

\* fn mul(lhs: u32, rhs: u32) -> u32
mul(lhs, rhs) == ModP(WideMul(lhs, rhs))

\* impl ops::Add / AddAssign for Elem: Elem(add(self.0, rhs.0)).  Rust
\* evaluates the operands of a call first, and so does a function application.
Elem_add[a \in Word, b \in Word] == add(a, b)

\* impl ops::Sub / SubAssign for Elem
Elem_sub[a \in Word, b \in Word] == sub(a, b)

\* impl ops::Mul / MulAssign for Elem
Elem_mul[a \in Word, b \in Word] == mul(a, b)

\* impl ops::Neg for Elem: Elem(0) - self
Elem_neg[e \in Word] == Elem_sub[U32(0), e]

\* Elem::new(x: u32)
Elem_new(r) == ModP(r)

\* impl From<u32> for Elem
Elem_from_u32(r) == ModP(r)

\* impl From<u64> for Elem (r: four limbs)
Elem_from_u64(r) == ModP(r)

\* Elem::ZERO, Elem::ONE
ZERO == Elem_new(U32(0))
ONE == Elem_new(U32(1))

\* Elem::pow(self, n): square-and-multiply over the bits of n, the loop of
\* ExtElem::pow on base-field values.
Elem_pow_loop[n \in Nat, tot \in Word, b \in Word] ==
    IF n = 0 THEN tot
    ELSE Elem_pow_loop[n \div 2, IF n % 2 = 1 THEN Elem_mul[tot, b] ELSE tot, Elem_mul[b, b]]

Elem_pow(e, n) == Elem_pow_loop[n, Elem_from_u32(U32(1)), e]

\* inv with an exponent that came out as 0.
Elem_inv_exponent_zero(e) == Elem_pow(e, 0)

\* Elem::inv
Elem_inv(e) == Elem_pow(e, P - 2)

\* random without a cutoff below u32::MAX.
REJECT_CUTOFF_none == U32_MAX

\* const REJECT_CUTOFF: u32 = (u32::MAX / P) * P
REJECT_CUTOFF == Low32(WideMul(U32(U32DivP(U32_MAX)), P_U32))

\* The loop of Elem::random on the stream of rng.gen() results, read from
\* position i: the index of the draw the loop leaves with, 0 when every draw
\* of the (finite) stream is rejected and the loop is still drawing.
RECURSIVE random_loop(_, _)
random_loop(stream, i) ==
    IF i > Len(stream) THEN 0
    ELSE IF U32Le(REJECT_CUTOFF, stream[i]) THEN random_loop(stream, i + 1)
    ELSE i

\* Whether Elem::random has returned on the stream.
random_returns(stream) == random_loop(stream, 1) # 0

\* Elem::random: Elem::from(val) of the draw the loop left with.
Elem_random(stream) == Elem_from_u32(stream[random_loop(stream, 1)])

\* ------------------------------------------------------------------------
\* Extension field: ExtElem([Elem; 4]), a[1] .. a[4] holding a0 .. a3
\* ------------------------------------------------------------------------

\* The values of an [Elem; EXT_SIZE].
ExtWord == Word \X Word \X Word \X Word

BETA == Elem_new(U32(11))
NBETA == Elem_new(U32(P - 11))

\* ExtElem::new(x0, x1, x2, x3) and From<[Elem; EXT_SIZE]>
ExtElem_new(x0, x1, x2, x3) == <<x0, x1, x2, x3>>

\* ExtElem::from_fp
ExtElem_from_fp(e) == <<e, Elem_new(U32(0)), Elem_new(U32(0)), Elem_new(U32(0))>>

\* ExtElem::from_u32(x0: u32)
ExtElem_from_u32(r) ==
    <<Elem_new(r), Elem_new(U32(0)), Elem_new(U32(0)), Elem_new(U32(0))>>

\* impl From<Elem> for ExtElem, and from_subfield
ExtElem_from_elem(e) == <<e, ZERO, ZERO, ZERO>>

\* impl From<u32> for ExtElem
ExtElem_from(r) == <<Elem_from_u32(r), ZERO, ZERO, ZERO>>

\* ExtElem::ZERO = zero(), ExtElem::ONE = one()
ExtElem_ZERO == ExtElem_from_u32(U32(0))
ExtElem_ONE == ExtElem_from_u32(U32(1))

\* The operators of Elem as they are written in the source: +, -, *.
a (+) b == Elem_add[a, b]
a (-) b == Elem_sub[a, b]
a (.) b == Elem_mul[a, b]

\* impl ops::AddAssign for ExtElem (and Add, which calls it)
ExtElem_add(a, b) == [i \in 1 .. 4 |-> a[i] (+) b[i]]

\* impl ops::SubAssign for ExtElem (and Sub, which calls it)
ExtElem_sub(a, b) == [i \in 1 .. 4 |-> a[i] (-) b[i]]

\* impl ops::MulAssign<Elem> for ExtElem (and Mul<Elem>, Mul<ExtElem> for Elem)
ExtElem_mul_elem(a, e) == [i \in 1 .. 4 |-> a[i] (.) e]

\* impl ops::MulAssign for ExtElem (and Mul, which calls it)
ExtElem_mul(a, b) ==
    << a[1] (.) b[1] (+) NBETA (.) ((a[2] (.) b[4] (+) a[3] (.) b[3]) (+) a[4] (.) b[2]),
       (a[1] (.) b[2] (+) a[2] (.) b[1]) (+) NBETA (.) (a[3] (.) b[4] (+) a[4] (.) b[3]),
       ((a[1] (.) b[3] (+) a[2] (.) b[2]) (+) a[3] (.) b[1]) (+) NBETA (.) (a[4] (.) b[4]),
       ((a[1] (.) b[4] (+) a[2] (.) b[3]) (+) a[3] (.) b[2]) (+) a[4] (.) b[1] >>

\* impl ops::Neg for ExtElem: ExtElem::ZERO - self
ExtElem_neg(a) == ExtElem_sub(ExtElem_ZERO, a)

\* ExtElem::pow: the while loop, one iteration per application.
ExtElem_pow_loop[n \in Nat, tot \in ExtWord, b \in ExtWord] ==
    IF n = 0 THEN tot
    ELSE ExtElem_pow_loop[n \div 2,
                          IF n % 2 = 1 THEN ExtElem_mul(tot, b) ELSE tot,
                          ExtElem_mul(b, b)]

ExtElem_pow(a, n) == ExtElem_pow_loop[n, ExtElem_from(U32(1)), a]

\* The b0, b2 of ExtElem::inv before they are scaled: a * a' = b0 + b2 x^2.
inv_b0(a) == a[1] (.) a[1] (+) BETA (.) (a[2] (.) (a[4] (+) a[4]) (-) a[3] (.) a[3])

inv_b2(a) == (a[1] (.) (a[3] (+) a[3]) (-) a[2] (.) a[2]) (+) BETA (.) (a[4] (.) a[4])

\* c with the sign of the BETA term turned.
inv_c_nbeta(b0, b2) == b0 (.) b0 (+) (NBETA (.) b2) (.) b2

\* The c of ExtElem::inv: b0 * b0 + BETA * b2 * b2.
inv_c(b0, b2) == b0 (.) b0 (+) (BETA (.) b2) (.) b2

\* The result of ExtElem::inv from a and b0, b2 scaled by ic.
inv_out(a, b0, b2) ==
    << a[1] (.) b0 (+) (BETA (.) a[3]) (.) b2,
       Elem_neg[a[2]] (.) b0 (+) (NBETA (.) a[4]) (.) b2,
       Elem_neg[a[1]] (.) b2 (+) a[3] (.) b0,
       a[2] (.) b2 (-) a[4] (.) b0 >>

\* ExtElem::inv, from `let ic = c.inv()` on.
inv_scaled[a \in ExtWord, b0 \in Word, b2 \in Word, ic \in Word] ==
    inv_out(a, b0 (.) ic, b2 (.) ic)

\* ExtElem::inv
ExtElem_inv(a) ==
    inv_scaled[a, inv_b0(a), inv_b2(a), Elem_inv(inv_c(inv_b0(a), inv_b2(a)))]

\* ExtElem::random: four calls of Elem::random, each on its own run of draws.
ExtElem_random(streams) == [i \in 1 .. 4 |-> Elem_random(streams[i])]

\* ------------------------------------------------------------------------
\* Roots of unity: impl field::RootsOfUnity for Elem
\* ------------------------------------------------------------------------

MAX_ROU_PO2 == 27

\* rou_array!: each literal through Elem::new.
rou_array(literals) == [i \in 1 .. Len(literals) |-> Elem_new(U32(literals[i]))]

\* ROU_FWD with two digits of one entry exchanged.
ROU_FWD_typo ==
    rou_array(<<
        1, 2013265920, 284861408, 1801542727, 567209306, 740045640, 918899846, 1881002012,
        1453957774, 65325759, 1538055801, 515192888, 483885487, 157393079, 1695124103, 2005211659,
        1540072241, 88064245, 1542985445, 1269900459, 1461624142, 825701067, 682402162, 1311873874,
        1164520853, 352275361, 18796, 137 >>)

\* ROU_FWD[i] of the source is ROU_FWD[i + 1] here.
ROU_FWD ==
    rou_array(<<
        1, 2013265920, 284861408, 1801542727, 567209306, 740045640, 918899846, 1881002012,
        1453957774, 65325759, 1538055801, 515192888, 483885487, 157393079, 1695124103, 2005211659,
        1540072241, 88064245, 1542985445, 1269900459, 1461624142, 825701067, 682402162, 1311873874,
        1164520853, 352275361, 18769, 137 >>)

ROU_REV ==
    rou_array(<<
        1, 2013265920, 1728404513, 1592366214, 196396260, 1253260071, 72041623, 1091445674,
        145223211, 1446820157, 1030796471, 2010749425, 1827366325, 1239938613, 246299276,
        596347512, 1893145354, 246074437, 1525739923, 1194341128, 1463599021, 704606912, 95395244,
        15672543, 647517488, 584175179, 137728885, 749463956 >>)

\* ------------------------------------------------------------------------
\* Guest/host channel: host_sendrecv
\* ------------------------------------------------------------------------

\* Bytes in a word of the guest (platform::WORD_SIZE); usize is a u32 there.
WORD_SIZE == 4

\* memory::INPUT.len_words(): the words of the input region.
INPUT_len_words == 6

\* Whether `response_nbytes + WORD_SIZE - 1` leaves usize.
nwords_overflows(response_nbytes) ==
    U32AddCarry(response_nbytes, U32(WORD_SIZE - 1)) = 1

\* The word count rounded down.
response_nwords_floor(response_nbytes) ==
    response_nbytes[1] * (Half \div WORD_SIZE) + (response_nbytes[2] \div WORD_SIZE)

\* (response_nbytes + WORD_SIZE - 1) / WORD_SIZE, the sum wrapping as it does
\* in a build without overflow checks; the quotient is below 2^30.
response_nwords(response_nbytes) ==
    LET sum == wrapping_add(response_nbytes, U32(WORD_SIZE - 1))
    IN  sum[1] * (Half \div WORD_SIZE) + (sum[2] \div WORD_SIZE)

\* The bounds check with <= for <.
bounds_check_le(read_ptr, nwords) == read_ptr + nwords <= INPUT_len_words

\* The condition of `assert!(*read_ptr + response_nwords < memory::INPUT.len_words())`.
bounds_check(read_ptr, nwords) == read_ptr + nwords < INPUT_len_words

\* ------------------------------------------------------------------------
\* State
\* ------------------------------------------------------------------------

VARIABLES
    ex, ey,         \* Elem bindings of a caller of the field
    ea, eb,         \* ExtElem bindings
    fop,            \* the last field operation: its name, operands and result
    steps,          \* field operations applied so far
    rou_i,          \* the index into ROU_FWD / ROU_REV under test
    rou_j,          \* squarings applied to ROU_FWD[rou_i]
    rou_acc,        \* ROU_FWD[rou_i] ^ (2 ^ rou_j)
    READ_PTR,       \* static mut READ_PTR: words of INPUT consumed
    INPUT,          \* the words of the input region the host has written
    gpio,           \* GPIO_SENDRECV_CHANNEL, _SIZE, _ADDR as last written
    io_pc,          \* where host_sendrecv stands
    io_args,        \* the arguments of the call of host_sendrecv under way
    io_last,        \* the last call of host_sendrecv to end, and how
    calls,          \* the calls of host_sendrecv that returned, in order
    oob_read,       \* whether a header was read outside the input region
    overflow_checks \* whether the build panics on integer overflow

fieldVars == <<ex, ey, ea, eb, fop, steps>>
rouVars == <<rou_i, rou_j, rou_acc>>
ioVars == <<READ_PTR, INPUT, gpio, io_pc, io_args, io_last, calls, oob_read, overflow_checks>>
vars == <<fieldVars, rouVars, ioVars>>

\* ------------------------------------------------------------------------
\* The field as a machine: two Elem and two ExtElem bindings of a caller,
\* and the operations of the two types applied to them.
\* ------------------------------------------------------------------------

\* The longest sequence of field operations followed.
MaxSteps == 2

\* Raw integers handed to the constructors.
RawU32 == {U32(P), U32_MAX}
RawU64 == {<<0, 1, 0, 0>>, <<Half - 1, Half - 1, Half - 1, Half - 1>>}

\* Runs of rng.gen() results: draws below, at and above the cutoff.
RngStreams ==
    { <<U32(7)>>,
      <<wrapping_add(P_U32, P_U32), wrapping_sub(wrapping_add(P_U32, P_U32), U32(1))>>,
      <<U32_MAX, wrapping_add(P_U32, P_U32), U32(P)>>,
      <<U32_MAX>> }

\* Exponents handed to pow.
PowExps == {0, 3}

\* No operand.
None == <<>>

Did(op, a, b, out) ==
    /\ steps < MaxSteps
    /\ fop' = [op |-> op, a |-> a, b |-> b, out |-> out]
    /\ steps' = steps + 1
    /\ UNCHANGED <<rouVars, ioVars>>

FieldInit ==
    /\ ex = Elem_new(U32(P - 1))
    /\ ey = Elem_new(U32(5))
    /\ ea = ExtElem_new(Elem_new(U32(3)), Elem_new(U32(P - 1)),
                        Elem_new(U32(5)), Elem_new(U32(P - 2)))
    /\ eb = ExtElem_new(Elem_new(U32(P - 7)), Elem_new(U32(2)),
                        Elem_new(U32(0)), Elem_new(U32(11)))
    /\ fop = [op |-> "init", a |-> None, b |-> None, out |-> None]
    /\ steps = 0

\* let ex = Elem::new(r)
ElemNew ==
    \E r \in RawU32 :
        /\ Did("Elem::new", r, None, Elem_new(r))
        /\ ex' = Elem_new(r)
        /\ UNCHANGED <<ey, ea, eb>>

\* let ey = Elem::from(r), r: u32
ElemFromU32 ==
    \E r \in RawU32 :
        /\ Did("Elem::from<u32>", r, None, Elem_from_u32(r))
        /\ ey' = Elem_from_u32(r)
        /\ UNCHANGED <<ex, ea, eb>>

\* let ex = Elem::from(r), r: u64
ElemFromU64 ==
    \E r \in RawU64 :
        /\ Did("Elem::from<u64>", r, None, Elem_from_u64(r))
        /\ ex' = Elem_from_u64(r)
        /\ UNCHANGED <<ey, ea, eb>>

\* let ey = Elem::random(rng): the call returns once a draw is accepted.
ElemRandom ==
    \E stream \in RngStreams :
        /\ random_returns(stream)
        /\ Did("Elem::random", stream, None, Elem_random(stream))
        /\ ey' = Elem_random(stream)
        /\ UNCHANGED <<ex, ea, eb>>

\* ex = ex + ey
ElemAdd ==
    /\ Did("Elem::add", ex, ey, Elem_add[ex, ey])
    /\ ex' = Elem_add[ex, ey]
    /\ UNCHANGED <<ey, ea, eb>>

\* ey += ex
ElemAddAssign ==
    /\ Did("Elem::add_assign", ey, ex, Elem_add[ey, ex])
    /\ ey' = Elem_add[ey, ex]
    /\ UNCHANGED <<ex, ea, eb>>

\* ex = ex - ey
ElemSub ==
    /\ Did("Elem::sub", ex, ey, Elem_sub[ex, ey])
    /\ ex' = Elem_sub[ex, ey]
    /\ UNCHANGED <<ey, ea, eb>>

\* ey -= ex
ElemSubAssign ==
    /\ Did("Elem::sub_assign", ey, ex, Elem_sub[ey, ex])
    /\ ey' = Elem_sub[ey, ex]
    /\ UNCHANGED <<ex, ea, eb>>

\* ex = ex * ey
ElemMul ==
    /\ Did("Elem::mul", ex, ey, Elem_mul[ex, ey])
    /\ ex' = Elem_mul[ex, ey]
    /\ UNCHANGED <<ey, ea, eb>>

\* ey *= ex
ElemMulAssign ==
    /\ Did("Elem::mul_assign", ey, ex, Elem_mul[ey, ex])
    /\ ey' = Elem_mul[ey, ex]
    /\ UNCHANGED <<ex, ea, eb>>

\* ex = -ex
ElemNeg ==
    /\ Did("Elem::neg", ex, None, Elem_neg[ex])
    /\ ex' = Elem_neg[ex]
    /\ UNCHANGED <<ey, ea, eb>>

\* ex = ex.pow(n)
ElemPow ==
    \E n \in PowExps :
        /\ Did("Elem::pow", ex, n, Elem_pow(ex, n))
        /\ ex' = Elem_pow(ex, n)
        /\ UNCHANGED <<ey, ea, eb>>

\* ex = ex.inv()
ElemInv ==
    /\ Did("Elem::inv", ex, None, Elem_inv(ex))
    /\ ex' = Elem_inv(ex)
    /\ UNCHANGED <<ey, ea, eb>>

\* let ea = ExtElem::new(x0, ey, ex, ey)
ExtNew ==
    \E x0 \in {ex, ey} :
        /\ Did("ExtElem::new", <<x0, ey, ex, ey>>, None, ExtElem_new(x0, ey, ex, ey))
        /\ ea' = ExtElem_new(x0, ey, ex, ey)
        /\ UNCHANGED <<ex, ey, eb>>

\* let ea = ExtElem::from_fp(ex)
ExtFromFp ==
    /\ Did("ExtElem::from_fp", ex, None, ExtElem_from_fp(ex))
    /\ ea' = ExtElem_from_fp(ex)
    /\ UNCHANGED <<ex, ey, eb>>

\* let eb = ExtElem::from_u32(r)
ExtFromU32Const ==
    \E r \in RawU32 :
        /\ Did("ExtElem::from_u32", r, None, ExtElem_from_u32(r))
        /\ eb' = ExtElem_from_u32(r)
        /\ UNCHANGED <<ex, ey, ea>>

\* let ea = ExtElem::from(r), r: u32
ExtFromU32 ==
    \E r \in RawU32 :
        /\ Did("ExtElem::from<u32>", r, None, ExtElem_from(r))
        /\ ea' = ExtElem_from(r)
        /\ UNCHANGED <<ex, ey, eb>>

\* let eb = ExtElem::from(ey), and ExtElem::from_subfield(&ey)
ExtFromElem ==
    /\ Did("ExtElem::from<Elem>", ey, None, ExtElem_from_elem(ey))
    /\ eb' = ExtElem_from_elem(ey)
    /\ UNCHANGED <<ex, ey, ea>>

\* let eb = ExtElem::random(rng)
ExtRandom ==
    \E s \in RngStreams, t \in RngStreams :
        /\ random_returns(s) /\ random_returns(t)
        /\ Did("ExtElem::random", <<s, t, t, s>>, None, ExtElem_random(<<s, t, t, s>>))
        /\ eb' = ExtElem_random(<<s, t, t, s>>)
        /\ UNCHANGED <<ex, ey, ea>>

\* let ex = ea.const_part()
ExtConstPart ==
    /\ Did("ExtElem::const_part", ea, None, ea[1])
    /\ ex' = ea[1]
    /\ UNCHANGED <<ey, ea, eb>>

\* ea = ea + eb
ExtAdd ==
    /\ Did("ExtElem::add", ea, eb, ExtElem_add(ea, eb))
    /\ ea' = ExtElem_add(ea, eb)
    /\ UNCHANGED <<ex, ey, eb>>

\* eb += ea
ExtAddAssign ==
    /\ Did("ExtElem::add_assign", eb, ea, ExtElem_add(eb, ea))
    /\ eb' = ExtElem_add(eb, ea)
    /\ UNCHANGED <<ex, ey, ea>>

\* ea = ea - eb
ExtSub ==
    /\ Did("ExtElem::sub", ea, eb, ExtElem_sub(ea, eb))
    /\ ea' = ExtElem_sub(ea, eb)
    /\ UNCHANGED <<ex, ey, eb>>

\* eb -= ea
ExtSubAssign ==
    /\ Did("ExtElem::sub_assign", eb, ea, ExtElem_sub(eb, ea))
    /\ eb' = ExtElem_sub(eb, ea)
    /\ UNCHANGED <<ex, ey, ea>>

\* ea = ea * ex
ExtMulElem ==
    /\ Did("ExtElem::mul<Elem>", ea, ex, ExtElem_mul_elem(ea, ex))
    /\ ea' = ExtElem_mul_elem(ea, ex)
    /\ UNCHANGED <<ex, ey, eb>>

\* eb = ey * eb, which is eb * ey
ElemMulExt ==
    /\ Did("Elem::mul<ExtElem>", ey, eb, ExtElem_mul_elem(eb, ey))
    /\ eb' = ExtElem_mul_elem(eb, ey)
    /\ UNCHANGED <<ex, ey, ea>>

\* eb *= ex
ExtMulAssignElem ==
    /\ Did("ExtElem::mul_assign<Elem>", eb, ex, ExtElem_mul_elem(eb, ex))
    /\ eb' = ExtElem_mul_elem(eb, ex)
    /\ UNCHANGED <<ex, ey, ea>>

\* ea = ea * eb
ExtMul ==
    /\ Did("ExtElem::mul", ea, eb, ExtElem_mul(ea, eb))
    /\ ea' = ExtElem_mul(ea, eb)
    /\ UNCHANGED <<ex, ey, eb>>

\* eb *= ea
ExtMulAssign ==
    /\ Did("ExtElem::mul_assign", eb, ea, ExtElem_mul(eb, ea))
    /\ eb' = ExtElem_mul(eb, ea)
    /\ UNCHANGED <<ex, ey, ea>>

\* ea = -ea
ExtNeg ==
    /\ Did("ExtElem::neg", ea, None, ExtElem_neg(ea))
    /\ ea' = ExtElem_neg(ea)
    /\ UNCHANGED <<ex, ey, eb>>

\* ea = ea.pow(n)
ExtPow ==
    \E n \in PowExps :
        /\ Did("ExtElem::pow", ea, n, ExtElem_pow(ea, n))
        /\ ea' = ExtElem_pow(ea, n)
        /\ UNCHANGED <<ex, ey, eb>>

\* ea = ea.inv()
ExtInv ==
    /\ Did("ExtElem::inv", ea, None, ExtElem_inv(ea))
    /\ ea' = ExtElem_inv(ea)
    /\ UNCHANGED <<ex, ey, eb>>

\* ------------------------------------------------------------------------
\* The tables under test: ROU_FWD[rou_i] squared rou_j times.
\* ------------------------------------------------------------------------

RouInit == rou_i = 0 /\ rou_j = 0 /\ rou_acc = ROU_FWD[1]

\* Take up the table entry i.
RouSelect ==
    \E i \in 0 .. MAX_ROU_PO2 :
        /\ rou_i' = i
        /\ rou_j' = 0
        /\ rou_acc' = ROU_FWD[i + 1]
        /\ UNCHANGED <<fieldVars, ioVars>>

\* rou_acc *= rou_acc
RouSquare ==
    /\ rou_j < rou_i
    /\ rou_j' = rou_j + 1
    /\ rou_acc' = Elem_mul[rou_acc, rou_acc]
    /\ UNCHANGED <<rou_i, fieldVars, ioVars>>

\* ------------------------------------------------------------------------
\* host_sendrecv: the guest writes its request, the host answers into the
\* input region, the guest reads the answer.
\* ------------------------------------------------------------------------

\* The calls a caller makes: a channel and a buffer (address, length).
Requests ==
    { [channel |-> "SENDRECV_CHANNEL_INITIAL_INPUT", buf |-> [addr |-> "buf0", len |-> 0]],
      [channel |-> "SENDRECV_CHANNEL_STDOUT", buf |-> [addr |-> "buf1", len |-> 5]] }

\* Byte counts the host may put in a header.
Headers ==
    { U32(0), U32(1), U32(WORD_SIZE), U32(WORD_SIZE + 1), U32(2 * WORD_SIZE),
      wrapping_sub(U32_MAX, U32(WORD_SIZE - 1)), U32_MAX }

IoInit ==
    /\ READ_PTR = 0
    /\ INPUT = [i \in 0 .. INPUT_len_words - 1 |-> U32(0)]
    /\ gpio = [channel |-> None, size |-> None, addr |-> None]
    /\ io_pc = "idle"
    /\ io_args = None
    /\ io_last = None
    /\ calls = <<>>
    /\ oob_read = FALSE

\* host_sendrecv(channel, buf), to the end of the block of write_volatile.
SendRequest ==
    \E args \in Requests :
        /\ io_pc = "idle"
        /\ io_args' = args
        /\ gpio' = [channel |-> args.channel, size |-> args.buf.len, addr |-> args.buf.addr]
        /\ io_pc' = "requested"
        /\ UNCHANGED <<READ_PTR, INPUT, io_last, calls, oob_read, overflow_checks>>
        /\ UNCHANGED <<fieldVars, rouVars>>

\* The host executes the sendrecv: it puts the byte count of its response at
\* the guest's cursor (the payload follows; the guest does not read it here).
HostRespond ==
    \E n \in Headers :
        /\ io_pc = "requested"
        /\ INPUT' = IF READ_PTR < INPUT_len_words
                    THEN [INPUT EXCEPT ![READ_PTR] = n]
                    ELSE INPUT
        /\ io_pc' = "responded"
        /\ UNCHANGED <<READ_PTR, gpio, io_args, io_last, calls, oob_read, overflow_checks>>
        /\ UNCHANGED <<fieldVars, rouVars>>

\* host_sendrecv from `// Receive` on, with the header word read as nbytes.
Receive(nbytes) ==
    LET at == READ_PTR
        read_ptr == READ_PTR + 1
        nwords == response_nwords(nbytes)
        panics == \/ (overflow_checks /\ nwords_overflows(nbytes))
                  \/ ~bounds_check(read_ptr, nwords)
        call == [at |-> at, nbytes |-> nbytes, start |-> read_ptr, len |-> nwords,
                 request |-> gpio, args |-> io_args]
    IN  /\ io_pc = "responded"
        /\ oob_read' = (oob_read \/ at >= INPUT_len_words)
        /\ IF panics
           THEN /\ READ_PTR' = read_ptr
                /\ io_pc' = "panicked"
                /\ io_last' = [at |-> at, nbytes |-> nbytes, end |-> "panicked"]
                /\ calls' = calls
           ELSE /\ READ_PTR' = read_ptr + nwords
                /\ io_pc' = "idle"
                /\ io_last' = [at |-> at, nbytes |-> nbytes, end |-> "returned"]
                /\ calls' = Append(calls, call)
        /\ UNCHANGED <<INPUT, gpio, io_args, overflow_checks>>
        /\ UNCHANGED <<fieldVars, rouVars>>

\* The header is the word at the cursor; a cursor outside the input region
\* reads whatever lies there.
ReceiveResponse ==
    IF READ_PTR < INPUT_len_words
    THEN Receive(INPUT[READ_PTR])
    ELSE \E n \in Headers : Receive(n)

\* ------------------------------------------------------------------------
\* Specifications
\* ------------------------------------------------------------------------

\* The field operations.
Init == FieldInit /\ RouInit /\ IoInit /\ overflow_checks = FALSE

Next ==
    \/ ElemNew
    \/ ElemFromU32
    \/ ElemFromU64
    \/ ElemRandom
    \/ ElemAdd
    \/ ElemAddAssign
    \/ ElemSub
    \/ ElemSubAssign
    \/ ElemMul
    \/ ElemMulAssign
    \/ ElemNeg
    \/ ElemPow
    \/ ElemInv
    \/ ExtNew
    \/ ExtFromFp
    \/ ExtFromU32Const
    \/ ExtFromU32
    \/ ExtFromElem
    \/ ExtRandom
    \/ ExtConstPart
    \/ ExtAdd
    \/ ExtAddAssign
    \/ ExtSub
    \/ ExtSubAssign
    \/ ExtMulElem
    \/ ElemMulExt
    \/ ExtMulAssignElem
    \/ ExtMul
    \/ ExtMulAssign
    \/ ExtNeg
    \/ ExtPow
    \/ ExtInv

Spec == Init /\ [][Next]_vars

\* The tables.
RouNext == RouSelect \/ RouSquare

SpecRou == Init /\ [][RouNext]_vars

\* The channel, in a build with and in one without overflow checks.
IoSpecInit == FieldInit /\ RouInit /\ IoInit /\ overflow_checks \in BOOLEAN

IoNext == SendRequest \/ HostRespond \/ ReceiveResponse

SpecIo == IoSpecInit /\ [][IoNext]_vars

\* ------------------------------------------------------------------------
\* Reference arithmetic: the integers modulo P computed on integers, with no
\* use of the 32- and 64-bit operations above.
\* ------------------------------------------------------------------------

Canonical(v) == v \in Word /\ U32Lt(v, P_U32)

naive_add(m, n) == IF m >= P - n THEN m - (P - n) ELSE m + n

naive_sub(m, n) == IF m >= n THEN m - n ELSE P - (n - m)

\* m * n mod P by doubling m along the bits of n.
naive_mul_loop[m \in Nat, n \in Nat, acc \in Nat] ==
    IF n = 0 THEN acc
    ELSE naive_mul_loop[naive_add(m, m), n \div 2,
                        IF n % 2 = 1 THEN naive_add(acc, m) ELSE acc]

naive_mul(m, n) == naive_mul_loop[m, n, 0]

\* v mod P of a 32-bit v, by subtraction.
RECURSIVE naive_rem32(_)
naive_rem32(v) == IF U32Lt(v, P_U32) THEN v ELSE naive_rem32(wrapping_sub(v, P_U32))

\* ceil(n / WORD_SIZE) of a 32-bit n, with no 32-bit sum.
naive_ceil_words(n) ==
    n[1] * (Half \div WORD_SIZE) + (n[2] \div WORD_SIZE)
        + (IF n[2] % WORD_SIZE = 0 THEN 0 ELSE 1)

\* The registers that hold an Elem, those of the ExtElem coefficients included.
ElemsHeld == {ex, ey} \cup {ea[i] : i \in 1 .. 4} \cup {eb[i] : i \in 1 .. 4}

ElemAddOps == {"Elem::add", "Elem::add_assign"}
ElemSubOps == {"Elem::sub", "Elem::sub_assign"}
ElemMulOps == {"Elem::mul", "Elem::mul_assign"}
ExtMulOps == {"ExtElem::mul", "ExtElem::mul_assign"}

\* ------------------------------------------------------------------------
\* C1
\* ------------------------------------------------------------------------

\* C1: every Elem a sequence of field operations leaves in a binding, and
\* every coefficient of every ExtElem, is in [0, P), and the 32-bit sum that
\* add forms of any two of them is at most 2^32 - 1.
C1_CanonicalRange ==
    /\ \A v \in ElemsHeld : Canonical(v)
    /\ \A v \in ElemsHeld : \A w \in ElemsHeld : ~AddOverflows(v, w)
    /\ fop.op \in ElemAddOps => ~AddOverflows(fop.a, fop.b)

\* An addition whose 32-bit sum reached P and was reduced.
C1_Witness ==
    /\ fop.op \in ElemAddOps
    /\ U32Le(P_U32, wrapping_add(fop.a, fop.b))
    /\ Canonical(fop.out)
    /\ steps = MaxSteps

\* ------------------------------------------------------------------------
\* C2
\* ------------------------------------------------------------------------

\* C2: on canonical operands a + b is (a + b) mod P, a - b is the canonical
\* (a - b) mod P and a * b is (a * b) mod P.
C2_NaiveArithmetic ==
    /\ fop.op \in ElemAddOps =>
          fop.out = U32(naive_add(Nat31(fop.a), Nat31(fop.b)))
    /\ fop.op \in ElemSubOps =>
          fop.out = U32(naive_sub(Nat31(fop.a), Nat31(fop.b)))
    /\ fop.op \in ElemMulOps =>
          fop.out = U32(naive_mul(Nat31(fop.a), Nat31(fop.b)))

\* A subtraction that wrapped: a < b, and P was added back.
C2_Witness ==
    /\ fop.op \in ElemSubOps
    /\ Canonical(fop.a) /\ Canonical(fop.b)
    /\ U32Lt(fop.a, fop.b)
    /\ fop.out = wrapping_add(wrapping_sub(fop.a, fop.b), P_U32)

\* ------------------------------------------------------------------------
\* C3
\* ------------------------------------------------------------------------

\* The coefficient of x^d in the product of the polynomials a and b.
poly_term(a, b, i, j) ==
    IF i \in 1 .. 4 /\ j \in 1 .. 4 THEN naive_mul(Nat31(a[i]), Nat31(b[j])) ELSE 0

poly_conv(a, b, d) ==
    naive_add(naive_add(poly_term(a, b, 1, d + 1), poly_term(a, b, 2, d)),
              naive_add(poly_term(a, b, 3, d - 1), poly_term(a, b, 4, d - 2)))

\* The product of a and b reduced by x^4 = r.
poly_mul_mod(a, b, r) ==
    [d \in 1 .. 4 |->
        U32(naive_add(poly_conv(a, b, d - 1), naive_mul(r, poly_conv(a, b, d + 3))))]

\* C3: a * b is the product of the polynomials a and b reduced modulo
\* x^4 - 11, that is with x^4 = 11.
C3_MulReducesByBeta ==
    fop.op \in ExtMulOps => fop.out = poly_mul_mod(fop.a, fop.b, 11)

\* What the code computes: the product reduced with x^4 = -11.
C3_MulReducesByNbeta ==
    fop.op \in ExtMulOps => fop.out = poly_mul_mod(fop.a, fop.b, P - 11)

\* ------------------------------------------------------------------------
\* C4
\* ------------------------------------------------------------------------

\* a with its second and fourth coefficient negated, and b = a * a' likewise.
inv_a_conj(a) == <<a[1], Elem_neg[a[2]], a[3], Elem_neg[a[4]]>>
inv_b_conj(a) == <<inv_b0(a), ZERO, Elem_neg[inv_b2(a)], ZERO>>

\* C4: for a different from ZERO, a.inv() * a is ExtElem::from(1) under the
\* multiplication of the code, c = b0^2 + 11 * b2^2 is not zero, and a.inv()
\* is a' * b' * inv(c).
C4_InvIsInverse ==
    (fop.op = "ExtElem::inv" /\ fop.a # ExtElem_ZERO) =>
        /\ ExtElem_mul(fop.out, fop.a) = ExtElem_from(U32(1))
        /\ inv_c(inv_b0(fop.a), inv_b2(fop.a)) # ZERO
        /\ inv_c(inv_b0(fop.a), inv_b2(fop.a)) =
              U32(naive_add(naive_mul(Nat31(inv_b0(fop.a)), Nat31(inv_b0(fop.a))),
                            naive_mul(11, naive_mul(Nat31(inv_b2(fop.a)),
                                                    Nat31(inv_b2(fop.a))))))
        /\ fop.out = ExtElem_mul_elem(ExtElem_mul(inv_a_conj(fop.a), inv_b_conj(fop.a)),
                                      Elem_inv(inv_c(inv_b0(fop.a), inv_b2(fop.a))))

\* The inversion of an element with four coefficients that are not zero.
C4_Witness ==
    /\ fop.op = "ExtElem::inv"
    /\ \A i \in 1 .. 4 : fop.a[i] # ZERO
    /\ fop.out # fop.a
    /\ ExtElem_mul(fop.out, fop.a) = ExtElem_ONE

\* ------------------------------------------------------------------------
\* C5
\* ------------------------------------------------------------------------

\* C5: Elem::inv of 0 returns 0 and ExtElem::inv of ZERO returns ZERO, and
\* every call of inv returns a field element.
C5_InvOfZero ==
    /\ (fop.op = "Elem::inv" /\ fop.a = ZERO) => fop.out = ZERO
    /\ (fop.op = "ExtElem::inv" /\ fop.a = ExtElem_ZERO) => fop.out = ExtElem_ZERO
    /\ fop.op = "Elem::inv" => Canonical(fop.out)
    /\ fop.op = "ExtElem::inv" => \A i \in 1 .. 4 : Canonical(fop.out[i])

\* ExtElem::inv was applied to ZERO, after ZERO was built by a constructor.
C5_Witness ==
    /\ fop.op = "ExtElem::inv"
    /\ fop.a = ExtElem_ZERO
    /\ ea = ExtElem_ZERO
    /\ Elem_inv(ZERO) = ZERO

\* ------------------------------------------------------------------------
\* C6
\* ------------------------------------------------------------------------

\* C6: the tables have MAX_ROU_PO2 + 1 = 28 entries; for every i,
\* ROU_FWD[i] * ROU_REV[i] is 1, ROU_FWD[i] squared i times is 1, and for
\* i >= 1 ROU_FWD[i] squared i - 1 times is not 1.
C6_RootsOfUnity ==
    /\ MAX_ROU_PO2 = 27
    /\ Len(ROU_FWD) = 28 /\ Len(ROU_REV) = 28
    /\ rou_i \in 0 .. MAX_ROU_PO2
    /\ Elem_mul[ROU_FWD[rou_i + 1], ROU_REV[rou_i + 1]] = ONE
    /\ rou_j = rou_i => rou_acc = ONE
    /\ (rou_i >= 1 /\ rou_j = rou_i - 1) => rou_acc # ONE

\* The last entry, squared MAX_ROU_PO2 times.
C6_Witness ==
    /\ rou_i = MAX_ROU_PO2
    /\ rou_j = rou_i
    /\ rou_acc = ONE

\* ------------------------------------------------------------------------
\* C7
\* ------------------------------------------------------------------------

\* The largest multiple of P that is at most u32::MAX.
TwoP == wrapping_add(P_U32, P_U32)

\* The 32-bit values r, r + P, r + 2P, ... of the residue r that a draw
\* below the cutoff can take.
Accepted(r) ==
    { k \in 0 .. 2 :
        /\ k >= 1 => ~AddOverflows(r, P_U32)
        /\ k >= 2 => ~AddOverflows(wrapping_add(r, P_U32), P_U32)
        /\ U32Lt(IF k = 0 THEN r
                 ELSE IF k = 1 THEN wrapping_add(r, P_U32)
                 ELSE wrapping_add(wrapping_add(r, P_U32), P_U32),
                 REJECT_CUTOFF) }

\* C7: random returns the first draw below REJECT_CUTOFF, reduced modulo P;
\* REJECT_CUTOFF is floor((2^32 - 1) / P) * P, and the residue returned has as
\* many accepted 32-bit values, two, as the residues 0, P - 1 and those on
\* either side of u32::MAX - 2P, the last with a third value below 2^32.
C7_RandomUniform ==
    /\ ~AddOverflows(P_U32, P_U32) /\ AddOverflows(TwoP, P_U32)
    /\ REJECT_CUTOFF = TwoP
    /\ fop.op = "Elem::random" =>
          LET i == random_loop(fop.a, 1)
          IN  /\ i \in 1 .. Len(fop.a)
              /\ U32Lt(fop.a[i], REJECT_CUTOFF)
              /\ \A j \in 1 .. i - 1 : ~U32Lt(fop.a[j], REJECT_CUTOFF)
              /\ fop.out = naive_rem32(fop.a[i])
              /\ Cardinality(Accepted(fop.out)) = Cardinality(Accepted(U32(0)))
              /\ Cardinality(Accepted(fop.out)) = Cardinality(Accepted(U32(P - 1)))
    /\ \A r \in {U32(0), U32(P - 1), wrapping_sub(U32_MAX, TwoP),
                  wrapping_add(wrapping_sub(U32_MAX, TwoP), U32(1))} :
          Cardinality(Accepted(r)) = 2
    /\ \A stream \in RngStreams :
          random_returns(stream) <=> \E j \in 1 .. Len(stream) : U32Lt(stream[j], TwoP)

\* A call that drew the cutoff itself, redrew, and returned the next draw.
C7_Witness ==
    /\ fop.op = "Elem::random"
    /\ Len(fop.a) >= 2
    /\ fop.a[1] = TwoP
    /\ random_loop(fop.a, 1) = 2
    /\ fop.out = ey

\* ------------------------------------------------------------------------
\* C8
\* ------------------------------------------------------------------------

\* C8: a call that found the cursor at r and a header of n bytes panics if
\* and only if r + 1 + ceil(n / WORD_SIZE) exceeds INPUT.len_words().
C8_FatalIffExceeds ==
    io_last # None =>
        (io_last.end = "panicked"
            <=> io_last.at + 1 + naive_ceil_words(io_last.nbytes) > INPUT_len_words)

\* ------------------------------------------------------------------------
\* C9
\* ------------------------------------------------------------------------

\* The headers n for which n + WORD_SIZE - 1 fits 32 bits.
NoOverflow(n) == U32Le(n, wrapping_sub(U32_MAX, U32(WORD_SIZE - 1)))

\* The cursor after the first k calls that returned.
CursorAfter(k) == IF k = 0 THEN 0 ELSE calls[k].start + calls[k].len

\* The words of the input region a call returned.
Returned(k) == calls[k].start .. (calls[k].start + calls[k].len - 1)

C9_Calls ==
    (\A k \in 1 .. Len(calls) : NoOverflow(calls[k].nbytes)) =>
        /\ io_pc # "panicked" => READ_PTR = CursorAfter(Len(calls))
        /\ \A k \in 1 .. Len(calls) :
              /\ calls[k].at = CursorAfter(k - 1)
              /\ calls[k].start = calls[k].at + 1
              /\ calls[k].len = naive_ceil_words(calls[k].nbytes)
              /\ calls[k].nbytes = INPUT[calls[k].at]
              /\ calls[k].request = [channel |-> calls[k].args.channel,
                                     size |-> calls[k].args.buf.len,
                                     addr |-> calls[k].args.buf.addr]
              /\ Returned(k) \subseteq 0 .. INPUT_len_words - 1
              /\ \A m \in 1 .. Len(calls) :
                    /\ calls[m].at \notin Returned(k)
                    /\ m # k => Returned(m) \cap Returned(k) = {}

C9_Step ==
    /\ READ_PTR' >= READ_PTR
    /\ calls' # calls =>
          /\ io_pc = "responded"
          /\ gpio = [channel |-> io_args.channel, size |-> io_args.buf.len,
                     addr |-> io_args.buf.addr]
          /\ calls' = Append(calls, calls'[Len(calls')])
          /\ NoOverflow(INPUT[READ_PTR]) =>
                READ_PTR' = READ_PTR + 1 + naive_ceil_words(INPUT[READ_PTR])

\* C9: READ_PTR starts at 0 and never decreases; a call that returns has
\* written its request, reads its header at the cursor and moves the cursor
\* on by 1 + ceil(n / WORD_SIZE); its slice has ceil(n / WORD_SIZE) words and
\* starts right after its header, which is right after the slice of the call
\* before; no word is returned twice, and the byte count is the header.
C9_ConsumedInOrder ==
    /\ READ_PTR = 0
    /\ [](C9_Calls)
    /\ [][C9_Step]_vars

\* Three calls returned; one had a header that is not a multiple of
\* WORD_SIZE, one a payload of two words.
C9_Witness ==
    /\ Len(calls) = 3
    /\ io_pc = "idle"
    /\ \A k \in 1 .. 3 : NoOverflow(calls[k].nbytes)
    /\ \E k \in 1 .. 3 : calls[k].nbytes = U32(WORD_SIZE + 1) /\ calls[k].len = 2
    /\ READ_PTR = calls[3].start + calls[3].len

\* ------------------------------------------------------------------------
\* C10
\* ------------------------------------------------------------------------

\* C10: after any sequence of calls that returned, READ_PTR is less than
\* INPUT.len_words() on entry to the next call, and no header is read outside
\* the input region.
C10_CursorInRegion ==
    /\ INPUT_len_words >= 1
    /\ io_pc # "panicked" => READ_PTR < INPUT_len_words
    /\ ~oob_read

\* A call returned and left the cursor on the last word of the region.
C10_Witness ==
    /\ Len(calls) >= 1
    /\ io_pc = "idle"
    /\ READ_PTR = INPUT_len_words - 1
====
